---- MODULE Spec2Model ----
(***************************************************************************)
(* Model of src/parse.rs of rust-imap: the response-interpretation layer.  *)
(*                                                                         *)
(* A buffer is modelled as the sequence of units the external tokenizer    *)
(* (imap_proto::parse_response) would cut it into: each unit is either one *)
(* protocol record or a stretch of bytes the tokenizer cannot recognise    *)
(* (kind "Junk").  A line handed to the regex extractors is a sequence of  *)
(* characters.  One call of one entry point is one behaviour: Init is the  *)
(* state at function entry, every action is one loop iteration (or the     *)
(* whole body of a loop-free function).                                    *)
(***************************************************************************)
EXTENDS Integers, Sequences, FiniteSets, TLC

VARIABLES
    fn,       \* the entry point that was called
    input,    \* its argument: the buffer (units) or the line (characters)
    lines,    \* the remaining slice (`lines` in every loop)
    things,   \* parse_many: the Vec of mapped objects
    caps,     \* parse_capabilities: the HashSet
    mailbox,  \* parse_mailbox: the Mailbox accumulator
    pc,       \* "run" | "ok" | "err" | "panic"
    result,   \* <<>> or <<v>>: the value of Ok(v)
    err       \* <<>> or <<e>>: the value of Err(e)

vars == <<fn, input, lines, things, caps, mailbox, pc, result, err>>

\* ------------------------------------------------------------------ bounds
MaxRecords == 3
MaxLine == 4

\* ------------------------------------------------------------- Option<T>
None == <<>>
Some(x) == <<x>>

\* --------------------------------------------------- imap_proto's records
\* Every record has the same fields, so that records of different kinds
\* can be compared; a field a kind does not carry holds a neutral value.
NoCode == [kind |-> "None", num |-> 0, flags |-> <<>>]
NoDatum == [kind |-> "None", num |-> 0, flags |-> <<>>, delimiter |-> "", name |-> ""]

Resp(k) ==
    [kind |-> k, num |-> 0, status |-> "", code |-> NoCode, caps |-> <<>>,
     attrs |-> <<>>, datum |-> NoDatum]

Code(k, n, fl) == [kind |-> k, num |-> n, flags |-> fl]
Datum(k, n, fl, d, nm) == [kind |-> k, num |-> n, flags |-> fl, delimiter |-> d, name |-> nm]
Attr(k, n, fl, d) == [kind |-> k, num |-> n, flags |-> fl, data |-> d]

Capabilities(c) == [Resp("Capabilities") EXCEPT !.caps = c]
Data(st, cd) == [Resp("Data") EXCEPT !.status = st, !.code = cd]
Expunge(n) == [Resp("Expunge") EXCEPT !.num = n]
Fetch(n, at) == [Resp("Fetch") EXCEPT !.num = n, !.attrs = at]
MailboxData(m) == [Resp("MailboxData") EXCEPT !.datum = m]
Junk == Resp("Junk")

Recent(n) == MailboxData(Datum("Recent", n, <<>>, "", ""))
Exists(n) == MailboxData(Datum("Exists", n, <<>>, "", ""))
Flags(fl) == MailboxData(Datum("Flags", 0, fl, "", ""))
List(fl, d, nm) == MailboxData(Datum("List", 0, fl, d, nm))
SubList(fl, d, nm) == MailboxData(Datum("SubList", 0, fl, d, nm))
Status(nm) == MailboxData(Datum("Status", 0, <<>>, "", nm))

\* ------------------------------------------------ the external tokenizer
\* imap_proto::parse_response(lines): Done(rest, resp) when the next bytes
\* are a record, anything else (Incomplete on the empty slice, Error on
\* unrecognised bytes) otherwise.
parse_response(ls) ==
    IF ls # <<>> /\ Head(ls).kind # "Junk"
    THEN [done |-> TRUE, rest |-> Tail(ls), resp |-> Head(ls)]
    ELSE [done |-> FALSE, rest |-> ls, resp |-> Junk]

\* ------------------------------------------------------------ the errors
\* mutant: the error carries what follows the unit the tokenizer failed on
Invalid_Rest(ls) ==
    [kind |-> "Invalid", data |-> IF ls = <<>> THEN ls ELSE Tail(ls)]

\* Error::Parse(ParseError::Invalid(bytes))
Invalid(ls) == [kind |-> "Invalid", data |-> ls]
\* Error::Parse(ParseError::Authentication(line))
Authentication(line) == [kind |-> "Authentication", data |-> line]
\* resp.into(): the "unexpected response" error carrying the record
ResponseIntoError(resp) == [kind |-> "Unexpected", data |-> <<resp>>]

\* ------------------------------------------------------------- parse_many
\* enum MapOrNot<T>
Map(t) == [tag |-> "Map", val |-> <<t>>]
Not(resp) == [tag |-> "Not", val |-> <<resp>>]

\* mutant: the expunge notification is missing from the filter
IsUnilateral_NoExpunge(resp) ==
    \/ resp.kind = "MailboxData" /\ resp.datum.kind \in {"Recent", "Exists"}
    \/ resp.kind = "Fetch"

\* mutant: the exists-count update is missing from the filter
IsUnilateral_NoExists(resp) ==
    \/ resp.kind = "MailboxData" /\ resp.datum.kind = "Recent"
    \/ resp.kind = "Fetch"
    \/ resp.kind = "Expunge"

\* the match of lines 47-55: is the unmapped record a unilateral response?
IsUnilateral(resp) ==
    \/ resp.kind = "MailboxData" /\ resp.datum.kind = "Recent"
    \/ resp.kind = "MailboxData" /\ resp.datum.kind = "Exists"
    \/ resp.kind = "Fetch"
    \/ resp.kind = "Expunge"

\* mutant: a subscribed-mailbox listing is not mapped
names_map_NoSubList(resp) ==
    IF resp.kind = "MailboxData" /\ resp.datum.kind = "List"
    THEN [tag |-> "Map",
          val |-> <<[attributes |-> resp.datum.flags,
                     delimiter |-> resp.datum.delimiter,
                     name |-> resp.datum.name]>>]
    ELSE [tag |-> "Not", val |-> <<resp>>]

\* the closure of parse_names
names_map(resp) ==
    IF resp.kind = "MailboxData" /\ resp.datum.kind \in {"List", "SubList"}
    THEN Map([attributes |-> resp.datum.flags,
              delimiter |-> resp.datum.delimiter,
              name |-> resp.datum.name])
    ELSE Not(resp)

\* mutant: an absent payload does not overwrite one already present
fetch_attr_KeepPresent(fetch, attr) ==
    CASE attr.kind = "Flags" -> [fetch EXCEPT !.flags = fetch.flags \o attr.flags]
      [] attr.kind = "Uid" -> [fetch EXCEPT !.uid = <<attr.num>>]
      [] attr.kind = "Rfc822" /\ attr.data # <<>> -> [fetch EXCEPT !.rfc822 = attr.data]
      [] attr.kind = "Rfc822Header" /\ attr.data # <<>> ->
            [fetch EXCEPT !.rfc822_header = attr.data]
      [] attr.kind = "BodySection" /\ attr.data # <<>> -> [fetch EXCEPT !.body = attr.data]
      [] OTHER -> fetch

\* the body of `for attr in attrs` in parse_fetches
fetch_attr(fetch, attr) ==
    CASE attr.kind = "Flags" -> [fetch EXCEPT !.flags = fetch.flags \o attr.flags]
      [] attr.kind = "Uid" -> [fetch EXCEPT !.uid = Some(attr.num)]
      [] attr.kind = "Rfc822" -> [fetch EXCEPT !.rfc822 = attr.data]
      [] attr.kind = "Rfc822Header" -> [fetch EXCEPT !.rfc822_header = attr.data]
      [] attr.kind = "BodySection" -> [fetch EXCEPT !.body = attr.data]
      [] OTHER -> fetch

RECURSIVE fetch_fold(_, _)
fetch_fold(fetch, attrs) ==
    IF attrs = <<>> THEN fetch
    ELSE fetch_fold(fetch_attr(fetch, Head(attrs)), Tail(attrs))

\* mutant: a fetch record without attributes is not mapped
fetches_map_SkipEmpty(resp) ==
    IF resp.kind = "Fetch" /\ resp.attrs # <<>>
    THEN [tag |-> "Map",
          val |-> <<fetch_fold([message |-> resp.num, flags |-> <<>>, uid |-> <<>>,
                                rfc822_header |-> <<>>, rfc822 |-> <<>>, body |-> <<>>],
                               resp.attrs)>>]
    ELSE [tag |-> "Not", val |-> <<resp>>]

\* the closure of parse_fetches
fetches_map(resp) ==
    IF resp.kind = "Fetch"
    THEN Map(fetch_fold([message |-> resp.num, flags |-> <<>>, uid |-> None,
                         rfc822_header |-> None, rfc822 |-> None, body |-> None],
                        resp.attrs))
    ELSE Not(resp)

Walkers == {"parse_names", "parse_fetches"}

map(f, resp) == IF f = "parse_names" THEN names_map(resp) ELSE fetches_map(resp)

\* mutant: a new object is put in front of the ones mapped so far
push_Front(ts, t) == <<t>> \o ts

\* things.push(t)
push(ts, t) == Append(ts, t)

\* mutant: an unexpected record returns the objects mapped so far with the error
parse_many_Partial ==
    /\ fn \in Walkers
    /\ pc = "run"
    /\ UNCHANGED <<fn, input, caps, mailbox>>
    /\ IF lines = <<>>
       THEN /\ pc' = "ok"
            /\ result' = <<things>>
            /\ UNCHANGED <<lines, things, err>>
       ELSE LET r == parse_response(lines) IN
            IF r.done
            THEN LET m == map(fn, r.resp) IN
                 /\ lines' = r.rest
                 /\ IF m.tag = "Map"
                    THEN /\ things' = push(things, m.val[1])
                         /\ UNCHANGED <<pc, result, err>>
                    ELSE IF IsUnilateral(m.val[1])
                    THEN UNCHANGED <<things, pc, result, err>>
                    ELSE /\ pc' = "err"
                         /\ err' = <<ResponseIntoError(m.val[1])>>
                         /\ result' = <<things>>
                         /\ UNCHANGED things
            ELSE /\ pc' = "err"
                 /\ err' = <<Invalid(lines)>>
                 /\ UNCHANGED <<lines, things, result>>

\* mutant: the slice is advanced only when the record is mapped
parse_many_NoAdvance ==
    /\ fn \in Walkers
    /\ pc = "run"
    /\ UNCHANGED <<fn, input, caps, mailbox>>
    /\ IF lines = <<>>
       THEN /\ pc' = "ok"
            /\ result' = <<things>>
            /\ UNCHANGED <<lines, things, err>>
       ELSE LET r == parse_response(lines) IN
            IF r.done
            THEN LET m == map(fn, r.resp) IN
                 IF m.tag = "Map"
                 THEN /\ lines' = r.rest
                      /\ things' = push(things, m.val[1])
                      /\ UNCHANGED <<pc, result, err>>
                 ELSE IF IsUnilateral(m.val[1])
                 THEN UNCHANGED <<lines, things, pc, result, err>>
                 ELSE /\ lines' = r.rest
                      /\ pc' = "err"
                      /\ err' = <<ResponseIntoError(m.val[1])>>
                      /\ UNCHANGED <<things, result>>
            ELSE /\ pc' = "err"
                 /\ err' = <<Invalid(lines)>>
                 /\ UNCHANGED <<lines, things, result>>

\* one iteration of the loop of parse_many
parse_many ==
    /\ fn \in Walkers
    /\ pc = "run"
    /\ UNCHANGED <<fn, input, caps, mailbox>>
    /\ IF lines = <<>>
       THEN /\ pc' = "ok"
            /\ result' = Some(things)
            /\ UNCHANGED <<lines, things, err>>
       ELSE LET r == parse_response(lines) IN
            IF r.done
            THEN LET m == map(fn, r.resp) IN
                 /\ lines' = r.rest
                 /\ IF m.tag = "Map"
                    THEN /\ things' = push(things, m.val[1])
                         /\ UNCHANGED <<pc, result, err>>
                    ELSE IF IsUnilateral(m.val[1])
                    THEN UNCHANGED <<things, pc, result, err>>
                    ELSE /\ pc' = "err"
                         /\ err' = Some(ResponseIntoError(m.val[1]))
                         /\ UNCHANGED <<things, result>>
            ELSE /\ pc' = "err"
                 /\ err' = Some(Invalid(lines))
                 /\ UNCHANGED <<lines, things, result>>

\* ------------------------------------------------------ parse_capabilities
\* mutant: the tokens are merged without regard to letter case
caps_extend_FoldCase(cs, c) ==
    cs \cup {IF c[i] = "imap4rev1" THEN "IMAP4rev1" ELSE c[i] : i \in 1..Len(c)}

\* caps.extend(c) on a HashSet
caps_extend(cs, c) == cs \cup {c[i] : i \in 1..Len(c)}

\* mutant: the first arm takes every record, not only capability records
capabilities_arm_AnyRecord(r) ==
    IF r.done THEN "Capabilities" ELSE "Invalid"

\* mutant: the end of the buffer is accepted before any record was read
capabilities_arm_EmptyOk(r) ==
    CASE r.done /\ r.resp.kind = "Capabilities" -> "Capabilities"
      [] r.done -> "Other"
      [] r.rest = <<>> -> "Capabilities"
      [] OTHER -> "Invalid"

\* which arm of the match of parse_capabilities takes the tokenizer's answer
capabilities_arm(r) ==
    CASE r.done /\ r.resp.kind = "Capabilities" -> "Capabilities"
      [] r.done -> "Other"
      [] OTHER -> "Invalid"

\* one iteration of the loop of parse_capabilities
parse_capabilities ==
    /\ fn = "parse_capabilities"
    /\ pc = "run"
    /\ UNCHANGED <<fn, input, things, mailbox>>
    /\ LET r == parse_response(lines)
           arm == capabilities_arm(r)
       IN
       IF arm = "Capabilities"
       THEN /\ lines' = r.rest
            /\ caps' = caps_extend(caps, r.resp.caps)
            /\ IF r.rest = <<>>
               THEN /\ pc' = "ok"
                    /\ result' = Some(caps')
                    /\ UNCHANGED err
               ELSE UNCHANGED <<pc, result, err>>
       ELSE IF arm = "Other"
       THEN /\ pc' = "err"
            /\ err' = Some(ResponseIntoError(r.resp))
            /\ UNCHANGED <<lines, caps, result>>
       ELSE /\ pc' = "err"
            /\ err' = Some(Invalid(lines))
            /\ UNCHANGED <<lines, caps, result>>

\* ------------------------------------------------------------ parse_mailbox
\* Mailbox::default()
Mailbox_default ==
    [exists |-> 0, recent |-> 0, unseen |-> None, uid_validity |-> None,
     uid_next |-> None, flags |-> <<>>, permanent_flags |-> <<>>]

\* mutant: every completion marker is accepted
StatusIsOk_Any(status) == TRUE

\* `if let imap_proto::Status::Ok = status {} else { unreachable!() }`
StatusIsOk(status) == status = "Ok"

\* `match code` of the Response::Data arm
mailbox_code(mb, code) ==
    CASE code.kind = "UidValidity" -> [mb EXCEPT !.uid_validity = Some(code.num)]
      [] code.kind = "UidNext" -> [mb EXCEPT !.uid_next = Some(code.num)]
      [] code.kind = "Unseen" -> [mb EXCEPT !.unseen = Some(code.num)]
      [] code.kind = "PermanentFlags" ->
            [mb EXCEPT !.permanent_flags = mb.permanent_flags \o code.flags]
      [] OTHER -> mb

\* mutant: a flag list replaces the flags seen so far
mailbox_datum_ReplaceFlags(mb, m) ==
    CASE m.kind = "Status" -> mb
      [] m.kind = "Exists" -> [mb EXCEPT !.exists = m.num]
      [] m.kind = "Recent" -> [mb EXCEPT !.recent = m.num]
      [] m.kind = "Flags" -> [mb EXCEPT !.flags = m.flags]
      [] OTHER -> mb

\* `match m` of the Response::MailboxData arm
mailbox_datum(mb, m) ==
    CASE m.kind = "Status" -> mb
      [] m.kind = "Exists" -> [mb EXCEPT !.exists = m.num]
      [] m.kind = "Recent" -> [mb EXCEPT !.recent = m.num]
      [] m.kind = "Flags" -> [mb EXCEPT !.flags = mb.flags \o m.flags]
      [] OTHER -> mb

\* mutant: an expunge notification is folded like mailbox data
mailbox_arm_ExpungeAsData(r) ==
    CASE r.done /\ r.resp.kind = "Data" -> "Data"
      [] r.done /\ r.resp.kind \in {"MailboxData", "Expunge"} -> "MailboxData"
      [] r.done -> "Other"
      [] OTHER -> "Invalid"

\* mutant: a record of another kind is ignored
mailbox_arm_IgnoreOther(r) ==
    CASE r.done /\ r.resp.kind = "Data" -> "Data"
      [] r.done -> "MailboxData"
      [] OTHER -> "Invalid"

\* which arm of the match of parse_mailbox takes the tokenizer's answer
mailbox_arm(r) ==
    CASE r.done /\ r.resp.kind = "Data" -> "Data"
      [] r.done /\ r.resp.kind = "MailboxData" -> "MailboxData"
      [] r.done -> "Other"
      [] OTHER -> "Invalid"

\* one iteration of the loop of parse_mailbox
parse_mailbox ==
    /\ fn = "parse_mailbox"
    /\ pc = "run"
    /\ UNCHANGED <<fn, input, things, caps>>
    /\ LET r == parse_response(lines)
           arm == mailbox_arm(r)
           folded == IF arm = "Data" THEN mailbox_code(mailbox, r.resp.code)
                     ELSE mailbox_datum(mailbox, r.resp.datum)
       IN
       CASE arm = "Data" /\ ~StatusIsOk(r.resp.status) ->
                /\ lines' = r.rest
                /\ pc' = "panic"
                /\ UNCHANGED <<mailbox, result, err>>
         [] arm = "Other" ->
                /\ pc' = "err"
                /\ err' = Some(ResponseIntoError(r.resp))
                /\ UNCHANGED <<lines, mailbox, result>>
         [] arm = "Invalid" ->
                /\ pc' = "err"
                /\ err' = Some(Invalid(lines))
                /\ UNCHANGED <<lines, mailbox, result>>
         [] OTHER ->
                /\ lines' = r.rest
                /\ mailbox' = folded
                /\ IF r.rest = <<>>
                   THEN /\ pc' = "ok"
                        /\ result' = Some(folded)
                        /\ UNCHANGED err
                   ELSE UNCHANGED <<pc, result, err>>

\* --------------------------------------------- parse_authenticate_response
\* Regex "^+(.*)\r\n": `^+` repeats the start-of-text assertion, it is not a
\* literal plus sign; `.` is any character but LF; the group is greedy.  The
\* value is the set of group-1 captures of the matches anchored at 0.
authenticate_regex(line) ==
    {SubSeq(line, 1, k) : k \in
        {j \in 0..(Len(line) - 2) :
            /\ \A i \in 1..j : line[i] # "LF"
            /\ line[j + 1] = "CR"
            /\ line[j + 2] = "LF"}}

Longest(S) == CHOOSE s \in S : \A t \in S : Len(t) <= Len(s)

\* the whole body of parse_authenticate_response
parse_authenticate_response ==
    /\ fn = "parse_authenticate_response"
    /\ pc = "run"
    /\ UNCHANGED <<fn, input, lines, things, caps, mailbox>>
    /\ LET cap == authenticate_regex(input) IN
       IF cap # {}
       THEN /\ pc' = "ok"
            /\ result' = Some(Longest(cap))
            /\ UNCHANGED err
       ELSE /\ pc' = "err"
            /\ err' = Some(Authentication(input))
            /\ UNCHANGED result

\* ------------------------------------------------------------- the inputs
\* all sequences over S of length at most n
RECURSIVE SeqsUpTo(_, _)
SeqsUpTo(S, n) ==
    IF n = 0 THEN {<<>>}
    ELSE LET Shorter == SeqsUpTo(S, n - 1) IN
         Shorter \cup {Append(s, x) : s \in Shorter, x \in S}

Seen == "\\Seen"

SomeFetches ==
    { Fetch(24, <<Attr("Flags", 0, <<Seen>>, None), Attr("Uid", 74, <<>>, None)>>),
      Fetch(25, <<>>) }

SomeCapabilities ==
    { Capabilities(<<"IMAP4rev1">>), Capabilities(<<"imap4rev1">>),
      Capabilities(<<"IMAP4rev1", "IDLE">>), Capabilities(<<"IDLE", "IDLE">>) }

Unilaterals == {Recent(1), Exists(2), Expunge(3)}

\* the units a buffer handed to parse_names or parse_fetches is made of
WalkerUnits ==
    Unilaterals \cup SomeFetches \cup
    { List(<<"\\HasNoChildren", "\\Marked">>, ".", "INBOX"),
      SubList(<<>>, "/", "Sent"),
      Flags(<<Seen>>), Status("INBOX"),
      Capabilities(<<"IDLE">>),
      Data("Ok", NoCode),
      Junk }

\* the units a buffer handed to parse_capabilities is made of
CapabilityUnits ==
    SomeCapabilities \cup Unilaterals \cup
    { Fetch(25, <<>>), Data("Ok", NoCode), Junk }

\* the units a buffer handed to parse_mailbox is made of
MailboxUnits ==
    { Data("Ok", NoCode),
      Data("Ok", Code("UidValidity", 5, <<>>)),
      Data("Ok", Code("Unseen", 7, <<>>)),
      Data("Ok", Code("PermanentFlags", 0, <<Seen>>)),
      Data("No", NoCode),
      Exists(2), Recent(1), Flags(<<Seen>>),
      List(<<>>, ".", "INBOX"), Status("INBOX"),
      Expunge(3), Fetch(25, <<>>), Capabilities(<<"IDLE">>),
      Junk }

Chars == {"+", "a", "CR", "LF"}

Fns == Walkers \cup {"parse_capabilities", "parse_mailbox", "parse_authenticate_response"}

Inputs(f) ==
    CASE f \in Walkers -> SeqsUpTo(WalkerUnits, MaxRecords)
      [] f = "parse_capabilities" -> SeqsUpTo(CapabilityUnits, MaxRecords)
      [] f = "parse_mailbox" -> SeqsUpTo(MailboxUnits, MaxRecords)
      [] OTHER -> SeqsUpTo(Chars, MaxLine)

\* ------------------------------------------------------ the specification
\* the state at the entry of the called function
Init ==
    /\ fn \in Fns
    /\ input \in Inputs(fn)
    /\ lines = IF fn = "parse_authenticate_response" THEN <<>> ELSE input
    /\ things = <<>>
    /\ caps = {}
    /\ mailbox = Mailbox_default
    /\ pc = "run"
    /\ result = None
    /\ err = None

Next ==
    \/ parse_many
    \/ parse_capabilities
    \/ parse_mailbox
    \/ parse_authenticate_response

Spec == Init /\ [][Next]_vars

\* -------------------------------------------------------- parse_search_ids
\* A line is a sequence of symbols: "*", " ", "TAB", decimal digits, the
\* word SEARCH in upper case ("SEARCH") or in any other letter case
\* ("search"), "J" for any other text character, and "xFF" for a byte that
\* is not valid UTF-8.

\* str::from_utf8(lines).is_ok()
from_utf8_ok(ls) == \A i \in 1..Len(ls) : ls[i] # "xFF"

\* the class \s of the pattern, and char::is_whitespace of str::trim
Whitespace == {" ", "TAB"}

\* the class [0-9] of the pattern
Digits == {"0", "1", "2", "3", "4", "5", "6", "7", "8", "9"}

DigitValue(d) ==
    CASE d = "0" -> 0 [] d = "1" -> 1 [] d = "2" -> 2 [] d = "3" -> 3 [] d = "4" -> 4
      [] d = "5" -> 5 [] d = "6" -> 6 [] d = "7" -> 7 [] d = "8" -> 8 [] d = "9" -> 9

AllIn(s, S) == \A i \in 1..Len(s) : s[i] \in S

\* does s match (?:\s+[0-9]+)* ?
RECURSIVE MatchesIds(_)
MatchesIds(s) ==
    \/ s = <<>>
    \/ \E i \in 1..Len(s) : \E j \in (i + 1)..Len(s) :
          /\ AllIn(SubSeq(s, 1, i), Whitespace)
          /\ AllIn(SubSeq(s, i + 1, j), Digits)
          /\ MatchesIds(SubSeq(s, j + 1, Len(s)))

\* mutant: the pattern without the (?i) flag
search_regex_CaseSensitive(resp) ==
    IF Len(resp) >= 3 /\ resp[1] = "*" /\ resp[2] = " " /\ resp[3] = "SEARCH"
    THEN LET rest == SubSeq(resp, 4, Len(resp)) IN
         {SubSeq(rest, 1, k) : k \in
            {n \in 0..Len(rest) :
                /\ MatchesIds(SubSeq(rest, 1, n))
                /\ AllIn(SubSeq(rest, n + 1, Len(rest)), Whitespace)}}
    ELSE {}

\* Regex r"^(?i)\* SEARCH((?:\s+[0-9]+)*)\s*$": the set of group-1 captures
\* of the matches of the whole text; the empty set when there is no match.
search_regex(resp) ==
    IF Len(resp) >= 3 /\ resp[1] = "*" /\ resp[2] = " " /\ resp[3] \in {"SEARCH", "search"}
    THEN LET rest == SubSeq(resp, 4, Len(resp)) IN
         {SubSeq(rest, 1, k) : k \in
            {n \in 0..Len(rest) :
                /\ MatchesIds(SubSeq(rest, 1, n))
                /\ AllIn(SubSeq(rest, n + 1, Len(rest)), Whitespace)}}
    ELSE {}

\* str::trim
RECURSIVE trim_start(_)
trim_start(s) ==
    IF s # <<>> /\ Head(s) \in Whitespace THEN trim_start(Tail(s)) ELSE s

RECURSIVE trim_end(_)
trim_end(s) ==
    IF s # <<>> /\ s[Len(s)] \in Whitespace
    THEN trim_end(SubSeq(s, 1, Len(s) - 1)) ELSE s

trim(s) == trim_end(trim_start(s))

\* str::split(' '): the pieces between the space characters, empty ones kept
RECURSIVE split_space(_)
split_space(s) ==
    LET I == {i \in 1..Len(s) : s[i] = " "} IN
    IF I = {} THEN <<s>>
    ELSE LET i == CHOOSE x \in I : \A y \in I : x <= y IN
         <<SubSeq(s, 1, i - 1)>> \o split_space(SubSeq(s, i + 1, Len(s)))

\* the digits of u32::MAX, 4294967295
U32MaxDigits == <<"4", "2", "9", "4", "9", "6", "7", "2", "9", "5">>

RECURSIVE strip_zeros(_)
strip_zeros(s) == IF s # <<>> /\ Head(s) = "0" THEN strip_zeros(Tail(s)) ELSE s

\* is the number written a (no leading zeros) at most the number written b?
RECURSIVE DigitsLeq(_, _)
DigitsLeq(a, b) ==
    IF Len(a) # Len(b) THEN Len(a) < Len(b)
    ELSE IF a = <<>> THEN TRUE
    ELSE IF Head(a) # Head(b) THEN DigitValue(Head(a)) < DigitValue(Head(b))
    ELSE DigitsLeq(Tail(a), Tail(b))

RECURSIVE Decimal(_)
Decimal(s) ==
    IF s = <<>> THEN 0
    ELSE 10 * Decimal(SubSeq(s, 1, Len(s) - 1)) + DigitValue(s[Len(s)])

\* str::parse::<u32>().ok(): digits only, at least one, no overflow
parse_u32(s) ==
    IF s # <<>> /\ AllIn(s, Digits) /\ DigitsLeq(strip_zeros(s), U32MaxDigits)
    THEN Some(Decimal(s)) ELSE None

\* .filter_map(|id| id.trim().parse().ok()).collect()
RECURSIVE filter_map_parse(_)
filter_map_parse(pieces) ==
    IF pieces = <<>> THEN <<>>
    ELSE parse_u32(trim(Head(pieces))) \o filter_map_parse(Tail(pieces))

\* the whole body of parse_search_ids
parse_search_ids ==
    /\ fn = "parse_search_ids"
    /\ pc = "run"
    /\ UNCHANGED <<fn, input, lines, things, caps, mailbox>>
    /\ IF from_utf8_ok(input)
       THEN LET cap == search_regex(input) IN
            IF cap # {}
            THEN /\ pc' = "ok"
                 /\ result' = Some(filter_map_parse(split_space(trim(Longest(cap)))))
                 /\ UNCHANGED err
            ELSE /\ pc' = "err"
                 /\ err' = Some(Invalid(input))
                 /\ UNCHANGED result
       ELSE /\ pc' = "err"
            /\ err' = Some(Invalid(input))
            /\ UNCHANGED result

\* the longest run of symbols after the keyword of a line
MaxTail == 4

SearchHeads == {<<>>, <<"*">>, <<"*", " ">>, <<"*", "TAB">>}
SearchWords == {"SEARCH", "search", "J"}
SearchTailChars == {" ", "TAB", "1", "2", "J", "xFF"}

\* the lines handed to parse_search_ids
SearchLines ==
    {h \o <<w>> \o t : h \in SearchHeads, w \in SearchWords,
                       t \in SeqsUpTo(SearchTailChars, MaxTail)}

\* the state at the entry of parse_search_ids
SearchInit ==
    /\ fn = "parse_search_ids"
    /\ input \in SearchLines
    /\ lines = input
    /\ things = <<>>
    /\ caps = {}
    /\ mailbox = Mailbox_default
    /\ pc = "run"
    /\ result = None
    /\ err = None

SearchSpec == SearchInit /\ [][parse_search_ids]_vars

\* ------------------------------------------- the fold of parse_mailbox alone
\* buffers of OK status lines and mailbox data only, two values of each field
MailboxFoldUnits ==
    { Data("Ok", NoCode),
      Data("Ok", Code("ReadWrite", 0, <<>>)),
      Data("Ok", Code("UidValidity", 5, <<>>)),
      Data("Ok", Code("UidValidity", 6, <<>>)),
      Data("Ok", Code("UidNext", 8, <<>>)),
      Data("Ok", Code("UidNext", 9, <<>>)),
      Data("Ok", Code("Unseen", 7, <<>>)),
      Data("Ok", Code("Unseen", 3, <<>>)),
      Data("Ok", Code("PermanentFlags", 0, <<Seen>>)),
      Data("Ok", Code("PermanentFlags", 0, <<"\\Deleted", "\\*">>)),
      Exists(2), Exists(4), Recent(1), Recent(0),
      Flags(<<Seen>>), Flags(<<"\\Answered", Seen>>),
      Status("INBOX"), List(<<>>, ".", "INBOX"), SubList(<<>>, "/", "Sent") }

\* the state at the entry of parse_mailbox
MailboxInit ==
    /\ fn = "parse_mailbox"
    /\ input \in SeqsUpTo(MailboxFoldUnits, MaxRecords)
    /\ lines = input
    /\ things = <<>>
    /\ caps = {}
    /\ mailbox = Mailbox_default
    /\ pc = "run"
    /\ result = None
    /\ err = None

MailboxSpec == MailboxInit /\ [][parse_mailbox]_vars

\* ------------------------------------------- the fold of parse_fetches alone
\* the longest attribute list of a fetch record
MaxAttrs == 3

\* attribute values; the num of a BodySection stands for its section specifier
FetchAttrs ==
    { Attr("Flags", 0, <<Seen>>, None),
      Attr("Flags", 0, <<"\\Deleted">>, None),
      Attr("Uid", 74, <<>>, None),
      Attr("Uid", 75, <<>>, None),
      Attr("Rfc822", 0, <<>>, Some("m1")),
      Attr("Rfc822", 0, <<>>, None),
      Attr("Rfc822Header", 0, <<>>, Some("h1")),
      Attr("Rfc822Header", 0, <<>>, None),
      Attr("BodySection", 1, <<>>, Some("b1")),
      Attr("BodySection", 2, <<>>, Some("b2")),
      Attr("BodySection", 2, <<>>, None),
      Attr("Envelope", 0, <<>>, None),
      Attr("Rfc822Size", 9, <<>>, None) }

\* the state at the entry of parse_fetches, the buffer holding one fetch record
FetchInit ==
    /\ fn = "parse_fetches"
    /\ input \in {<<Fetch(n, at)>> : n \in {24, 25}, at \in SeqsUpTo(FetchAttrs, MaxAttrs)}
    /\ lines = input
    /\ things = <<>>
    /\ caps = {}
    /\ mailbox = Mailbox_default
    /\ pc = "run"
    /\ result = None
    /\ err = None

FetchSpec == FetchInit /\ [][parse_many]_vars

\* ------------------------------------------------- the three loops alone
LoopFns == Walkers \cup {"parse_capabilities", "parse_mailbox"}

LoopInit == Init /\ fn \in LoopFns

LoopNext ==
    \/ parse_many
    \/ parse_capabilities
    \/ parse_mailbox

\* a call runs on its own thread of control and nothing suspends it: an
\* iteration that can be taken is taken
LoopSpec == LoopInit /\ [][LoopNext]_vars /\ WF_vars(LoopNext)

\* ================================================================ claims
\* The vocabulary of the claims, stated on the input alone.

\* the kind of a unit, by the names the specification uses
UnitKind(u) == IF u.kind = "MailboxData" THEN u.datum.kind ELSE u.kind

\* the kinds of the Unilateral Response Filter
UnilateralKinds == {"Recent", "Exists", "Fetch", "Expunge"}

\* the units of the buffer the loop has consumed so far
Consumed == SubSeq(input, 1, Len(input) - Len(lines))

\* the number of units of s whose kind is in K
RECURSIVE CountKinds(_, _)
CountKinds(s, K) ==
    IF s = <<>> THEN 0
    ELSE (IF UnitKind(Head(s)) \in K THEN 1 ELSE 0) + CountKinds(Tail(s), K)

OnlyKinds(s, K) == \A i \in 1..Len(s) : UnitKind(s[i]) \in K

Returned == pc # "run"

\* C1: in the Walker, a record the classification function returns as
\* Unrelated is discarded, the walk going on with the remaining bytes, when it
\* is a recent-count, exists-count, fetch or expunge record; any other
\* Unrelated record ends the walk at once with the unexpected-response error
\* built from exactly that record.
C1_UnrelatedRecord ==
    [][ ( /\ fn \in Walkers
          /\ pc = "run"
          /\ lines # <<>>
          /\ Head(lines).kind # "Junk"
          /\ map(fn, Head(lines)).tag = "Not" )
        => IF UnitKind(Head(lines)) \in UnilateralKinds
           THEN /\ pc' = "run"
                /\ lines' = Tail(lines)
                /\ things' = things
                /\ result' = None
                /\ err' = None
           ELSE /\ pc' = "err"
                /\ result' = None
                /\ err' = Some([kind |-> "Unexpected", data |-> <<Head(lines)>>])
      ]_vars

\* C1 witness: parse_names skipped a recent-count record and then stopped on
\* a capability record.
C1_Witness ==
    /\ fn = "parse_names"
    /\ Len(input) >= 2
    /\ UnitKind(input[1]) = "Recent"
    /\ UnitKind(input[2]) = "Capabilities"
    /\ pc = "err"
    /\ err = Some([kind |-> "Unexpected", data |-> <<input[2]>>])

\* C2: on a buffer of fetch records with recent-count, exists-count and
\* expunge records anywhere between them, parse_fetches never fails, has
\* mapped as many objects as it has consumed fetch records, and returns as
\* many Fetch results as the buffer has fetch records.
C2_FetchCount ==
    ( /\ fn = "parse_fetches"
      /\ OnlyKinds(input, {"Fetch", "Recent", "Exists", "Expunge"}) )
    => /\ pc \in {"run", "ok"}
       /\ Len(things) = CountKinds(Consumed, {"Fetch"})
       /\ pc = "ok" => /\ result # None
                       /\ Len(result[1]) = CountKinds(input, {"Fetch"})

\* C2 witness: fetch, unilateral, fetch was parsed into two results.
C2_Witness ==
    /\ fn = "parse_fetches"
    /\ Len(input) = 3
    /\ UnitKind(input[1]) = "Fetch"
    /\ UnitKind(input[2]) \in {"Recent", "Exists", "Expunge"}
    /\ UnitKind(input[3]) = "Fetch"
    /\ pc = "ok"
    /\ Len(result[1]) = 2

\* C3 as stated: for parse_names and parse_fetches alike, the empty buffer
\* and every buffer of only recent-count, exists-count, fetch and expunge
\* records return success with an empty sequence.
C3_Original ==
    ( /\ fn \in Walkers
      /\ Returned
      /\ OnlyKinds(input, UnilateralKinds) )
    => /\ pc = "ok"
       /\ result = Some(<<>>)

\* the kinds a list mapper drops: the unilateral kinds it does not map
DroppedKinds(f) ==
    IF f = "parse_fetches" THEN UnilateralKinds \ {"Fetch"} ELSE UnilateralKinds

\* C3 amended: the empty buffer, and every buffer of only records the mapper
\* drops (parse_names: recent-count, exists-count, fetch, expunge;
\* parse_fetches: recent-count, exists-count, expunge), never fail and
\* return success with an empty sequence.
C3_OnlyDropped ==
    ( /\ fn \in Walkers
      /\ OnlyKinds(input, DroppedKinds(fn)) )
    => /\ pc \in {"run", "ok"}
       /\ things = <<>>
       /\ pc = "ok" => result = Some(<<>>)

\* C3 witness: a non-empty buffer of dropped records only was walked to the
\* end and returned the empty sequence.
C3_Witness ==
    /\ fn \in Walkers
    /\ Len(input) >= 2
    /\ OnlyKinds(input, DroppedKinds(fn))
    /\ pc = "ok"
    /\ result = Some(<<>>)

\* the capability tokens that occur in the capability records of s
TokensOf(s) == UNION {{s[i].caps[j] : j \in 1..Len(s[i].caps)} : i \in 1..Len(s)}

\* C4: on a non-empty buffer of capability records only, parse_capabilities
\* never fails, holds exactly the tokens of the records consumed so far, and
\* returns exactly the set of the tokens that occur in any record, compared
\* as case-sensitive strings.
C4_CapabilitySet ==
    ( /\ fn = "parse_capabilities"
      /\ input # <<>>
      /\ OnlyKinds(input, {"Capabilities"}) )
    => /\ pc \in {"run", "ok"}
       /\ caps = TokensOf(Consumed)
       /\ pc = "ok" => result = Some(TokensOf(input))

\* C4 witness: tokens split over records, one repeated, two differing only in
\* letter case, all returned.
C4_Witness ==
    /\ fn = "parse_capabilities"
    /\ pc = "ok"
    /\ Len(input) = 3
    /\ input[1] = Capabilities(<<"IMAP4rev1", "IDLE">>)
    /\ input[2] = Capabilities(<<"IDLE", "IDLE">>)
    /\ input[3] = Capabilities(<<"imap4rev1">>)
    /\ result = Some({"IMAP4rev1", "IDLE", "imap4rev1"})

\* C5: parse_capabilities applies no unilateral filter.  It never steps over
\* a unit that is not a capability record; a buffer that is empty or holds
\* any other record or unrecognised bytes, at any position, ends in an error
\* and no set; the set is returned only at the end of the buffer, right after
\* a capability record.
C5_NoFilter ==
    fn = "parse_capabilities"
    => /\ OnlyKinds(Consumed, {"Capabilities"})
       /\ (Returned /\ (input = <<>> \/ ~OnlyKinds(input, {"Capabilities"})))
            => (pc = "err" /\ err # None /\ result = None)
       /\ result # None => pc = "ok"
       /\ pc = "ok" => /\ lines = <<>>
                       /\ input # <<>>
                       /\ UnitKind(input[Len(input)]) = "Capabilities"
                       /\ result = Some(caps)

\* C5 witness: a unilateral record after two valid capability records ended
\* the call in an error.
C5_Witness ==
    /\ fn = "parse_capabilities"
    /\ Len(input) = 3
    /\ UnitKind(input[1]) = "Capabilities"
    /\ UnitKind(input[2]) = "Capabilities"
    /\ UnitKind(input[3]) \in UnilateralKinds
    /\ pc = "err"
    /\ result = None

\* the first position of s that holds a unit failing P, 0 when there is none
FirstNot(s, P(_)) ==
    LET I == {i \in 1..Len(s) : ~P(s[i])} IN
    IF I = {} THEN 0 ELSE CHOOSE i \in I : \A j \in I : i <= j

InFamilies(u) == u.kind \in {"Data", "MailboxData"}
OkLine(u) == u.kind = "Data" => u.status = "Ok"

\* C6 as stated: parse_mailbox returns the accumulator with the buffer
\* consumed when every record is a status line or mailbox data, a
\* malformed-input error when the tokenizer fails (the empty buffer is read
\* as such a failure), and an unexpected-response error for the first record
\* outside both families.
C6_Original ==
    (fn = "parse_mailbox" /\ Returned)
    => LET k == FirstNot(input, InFamilies) IN
       /\ (k = 0 /\ input # <<>>)
            => (pc = "ok" /\ lines = <<>> /\ result = Some(mailbox))
       /\ (k > 0 /\ input[k].kind = "Junk")
            => (pc = "err" /\ result = None
                /\ err = Some([kind |-> "Invalid", data |-> SubSeq(input, k, Len(input))]))
       /\ (k > 0 /\ input[k].kind # "Junk")
            => (pc = "err" /\ result = None
                /\ err = Some([kind |-> "Unexpected", data |-> <<input[k]>>]))

\* C6 amended: the same, for a buffer in which no status line with a marker
\* other than OK comes before the first unit outside both families; the empty
\* buffer is a tokenizer failure and returns the malformed-input error.
C6_MailboxOutcome ==
    (fn = "parse_mailbox" /\ Returned)
    => LET k == FirstNot(input, InFamilies)
           before == IF k = 0 THEN input ELSE SubSeq(input, 1, k - 1)
           allOk == \A i \in 1..Len(before) : OkLine(before[i])
       IN
       /\ (k = 0 /\ input # <<>> /\ allOk)
            => (pc = "ok" /\ lines = <<>> /\ result = Some(mailbox) /\ err = None)
       /\ input = <<>>
            => (pc = "err" /\ result = None
                /\ err = Some([kind |-> "Invalid", data |-> <<>>]))
       /\ (k > 0 /\ allOk /\ input[k].kind = "Junk")
            => (pc = "err" /\ result = None
                /\ err = Some([kind |-> "Invalid", data |-> SubSeq(input, k, Len(input))]))
       /\ (k > 0 /\ allOk /\ input[k].kind # "Junk")
            => (pc = "err" /\ result = None
                /\ err = Some([kind |-> "Unexpected", data |-> <<input[k]>>]))

\* C6 witness: two folded records, then a record outside both families, then
\* the error wrapping it.
C6_Witness ==
    /\ fn = "parse_mailbox"
    /\ Len(input) = 3
    /\ UnitKind(input[1]) = "Data"
    /\ UnitKind(input[2]) = "Exists"
    /\ UnitKind(input[3]) \in {"Capabilities", "Fetch", "Expunge"}
    /\ pc = "err"
    /\ err = Some([kind |-> "Unexpected", data |-> <<input[3]>>])

\* the next unit is a record outside the two inspected families
OtherKindNext ==
    /\ fn = "parse_mailbox"
    /\ pc = "run"
    /\ lines # <<>>
    /\ Head(lines).kind \notin {"Junk", "Data", "MailboxData"}

\* the next unit is a record inside the families that carries nothing to fold
NothingToFoldNext ==
    /\ fn = "parse_mailbox"
    /\ pc = "run"
    /\ lines # <<>>
    /\ \/ UnitKind(Head(lines)) \in {"Status", "List", "SubList"}
       \/ /\ Head(lines).kind = "Data"
          /\ Head(lines).status = "Ok"
          /\ Head(lines).code.kind \notin
                {"UidValidity", "UidNext", "Unseen", "PermanentFlags"}

\* C7 as stated: a record of a kind outside the two inspected families is
\* ignored: no error, the accumulator unchanged, folding goes on.
C7_Original ==
    [][ OtherKindNext
        => /\ mailbox' = mailbox
           /\ lines' = Tail(lines)
           /\ pc' \in {"run", "ok"}
           /\ err' = None
      ]_vars

\* C7 amended: a record of a kind outside the two inspected families is not
\* ignored, it ends the call with the error built from that record and no
\* MailboxStatus; what is ignored without an error, the accumulator unchanged
\* and folding going on, are the records inside the families that carry
\* nothing to fold.
C7_OtherKindIsError ==
    [][ /\ OtherKindNext
            => /\ pc' = "err"
               /\ err' = Some(ResponseIntoError(Head(lines)))
               /\ result' = None
               /\ mailbox' = mailbox
        /\ NothingToFoldNext
            => /\ mailbox' = mailbox
               /\ lines' = Tail(lines)
               /\ pc' \in {"run", "ok"}
               /\ err' = None
      ]_vars

\* C7 witness: an ignored mailbox listing, then an expunge record that ended
\* the call in an error.
C7_Witness ==
    /\ fn = "parse_mailbox"
    /\ Len(input) >= 2
    /\ UnitKind(input[1]) = "List"
    /\ UnitKind(input[2]) = "Expunge"
    /\ pc = "err"
    /\ mailbox = Mailbox_default

OkOrMailboxData(u) == InFamilies(u) /\ OkLine(u)

\* C8: when the first unit of the buffer that is not foldable is a status
\* line whose marker is not OK, parse_mailbox goes no further than that
\* record and ends in the fault, with neither a MailboxStatus nor an error
\* value, whatever precedes and follows the record.
C8_NotOkFaults ==
    fn = "parse_mailbox"
    => LET k == FirstNot(input, OkOrMailboxData) IN
       /\ (k > 0 /\ input[k].kind = "Data")
            => /\ pc \in {"run", "panic"}
               /\ pc = "run" => Len(Consumed) < k
               /\ pc = "panic" => Len(Consumed) = k
       /\ pc = "panic" => (result = None /\ err = None /\ k > 0 /\ input[k].kind = "Data")

\* C8 witness: the fault, with a folded record before the offending status
\* line and a record left after it.
C8_Witness ==
    /\ fn = "parse_mailbox"
    /\ pc = "panic"
    /\ Len(Consumed) = 2
    /\ lines # <<>>
    /\ mailbox # Mailbox_default

\* the characters of a payload: no line terminator inside it
IsPayload(p) == \A i \in 1..Len(p) : p[i] \notin {"CR", "LF"}

\* C9 as stated: a line made of '+', a payload and CR LF returns exactly the
\* payload, without the '+'.
C9_Original ==
    ( /\ fn = "parse_authenticate_response"
      /\ Returned
      /\ Len(input) >= 3
      /\ input[1] = "+"
      /\ SubSeq(input, Len(input) - 1, Len(input)) = <<"CR", "LF">>
      /\ IsPayload(SubSeq(input, 2, Len(input) - 2)) )
    => /\ pc = "ok"
       /\ result = Some(SubSeq(input, 2, Len(input) - 2))

\* C10 as stated: a line that does not begin with '+' returns the
\* authentication error carrying the line, never a payload.
C10_Original ==
    ( /\ fn = "parse_authenticate_response"
      /\ Returned
      /\ (input = <<>> \/ input[1] # "+") )
    => /\ pc = "err"
       /\ result = None
       /\ err = Some([kind |-> "Authentication", data |-> input])

\* the rest of a line after its first n symbols
After(s, n) == SubSeq(s, n + 1, Len(s))

\* zero or more whitespace-separated integers and nothing else
IdsOnly(rest) ==
    /\ AllIn(rest, Whitespace \cup Digits)
    /\ rest = <<>> \/ rest[1] \in Whitespace

IsSearchWord(w) == w \in {"SEARCH", "search"}

\* the shape with the leading marker: "* ", SEARCH in any case, the integers
MarkedShape(s) ==
    /\ Len(s) >= 3
    /\ s[1] = "*" /\ s[2] = " " /\ IsSearchWord(s[3])
    /\ IdsOnly(After(s, 3))

\* the shape without the leading marker
UnmarkedShape(s) == Len(s) >= 1 /\ IsSearchWord(s[1]) /\ IdsOnly(After(s, 1))

\* C11 as stated: parse_search_ids accepts exactly the lines of the shape
\* with the marker optional, and returns the invalid error carrying the line
\* for every other input.
C11_Original ==
    (fn = "parse_search_ids" /\ Returned)
    => /\ pc = "ok" <=> (MarkedShape(input) \/ UnmarkedShape(input))
       /\ pc # "ok" => (pc = "err" /\ result = None
                        /\ err = Some([kind |-> "Invalid", data |-> input]))

\* C11 amended: parse_search_ids accepts exactly the lines of the shape with
\* the leading marker "* " (an asterisk and one space) present, and returns
\* the invalid error carrying the line for every other input, a line without
\* the marker included.
C11_MarkerRequired ==
    (fn = "parse_search_ids" /\ Returned)
    => /\ pc = "ok" <=> MarkedShape(input)
       /\ pc = "ok" => (result # None /\ err = None)
       /\ pc # "ok" => (pc = "err" /\ result = None
                        /\ err = Some([kind |-> "Invalid", data |-> input]))

\* C11 witness: SEARCH in another letter case with two integers was accepted.
C11_Witness ==
    /\ fn = "parse_search_ids"
    /\ input = <<"*", " ", "search", " ", "1", " ", "2">>
    /\ pc = "ok"
    /\ result = Some(<<1, 2>>)

\* the integers written in s: the values of its maximal runs of digits
RECURSIVE IntegersOn(_, _)
IntegersOn(s, run) ==
    IF s = <<>> THEN (IF run = <<>> THEN <<>> ELSE <<Decimal(run)>>)
    ELSE IF Head(s) \in Digits THEN IntegersOn(Tail(s), Append(run, Head(s)))
    ELSE (IF run = <<>> THEN <<>> ELSE <<Decimal(run)>>) \o IntegersOn(Tail(s), <<>>)

\* C12 as stated: an accepted line returns exactly the integers written on
\* it, in order and none dropped, whatever whitespace separates them.
C12_Original ==
    (fn = "parse_search_ids" /\ pc = "ok")
    => result = Some(IntegersOn(input, <<>>))

Mappers == Walkers \cup {"parse_capabilities", "parse_mailbox"}

\* the records a list mapper maps, by kind
Mappable(f, u) ==
    IF f = "parse_names" THEN UnitKind(u) \in {"List", "SubList"}
    ELSE UnitKind(u) = "Fetch"

\* the units a mapper cannot go past: unrecognised bytes, or a record it
\* neither maps or folds nor drops
Offending(f, u) ==
    CASE f \in Walkers ->
            u.kind = "Junk" \/ (~Mappable(f, u) /\ UnitKind(u) \notin UnilateralKinds)
      [] f = "parse_capabilities" -> UnitKind(u) # "Capabilities"
      [] OTHER -> ~OkOrMailboxData(u)

FirstOffending == FirstNot(input, LAMBDA u : ~Offending(fn, u))

\* C13 as stated: every call of a mapper ends either in success with a
\* result or in an error value with no result.
C13_Original ==
    (fn \in Mappers /\ Returned)
    => \/ pc = "ok" /\ result # None /\ err = None
       \/ pc = "err" /\ result = None /\ err # None

\* C13 amended: every mapper is all-or-nothing.  A call ends either in success, with
\* a result, no error, the whole buffer consumed and no offending unit in
\* it, or in a failure (an error value, or the fault of parse_mailbox) with
\* no result at all, whatever was accumulated before; a failure is at the
\* first offending unit and nothing after that unit has been consumed.
C13_AllOrNothing ==
    fn \in Mappers
    => LET k == FirstOffending IN
       /\ ~(result # None /\ err # None)
       /\ pc = "run" => (result = None /\ err = None)
       /\ pc = "ok" => (result # None /\ err = None /\ lines = <<>> /\ k = 0)
       /\ pc = "err" => err # None
       /\ pc \in {"err", "panic"}
            => /\ result = None
               /\ \/ k > 0 /\ Len(Consumed) \in {k - 1, k}
                  \/ input = <<>> /\ fn \notin Walkers

\* C13 witness: parse_fetches failed after two mapped fetch records, and
\* returned none of them.
C13_Witness ==
    /\ fn = "parse_fetches"
    /\ pc = "err"
    /\ Len(things) = 2
    /\ result = None
    /\ err # None

\* the field that tells from which record an object was mapped
KeyOfRecord(f, u) == IF f = "parse_names" THEN u.datum.name ELSE u.num
KeyOfObject(f, t) == IF f = "parse_names" THEN t.name ELSE t.message

\* C14: in parse_names and parse_fetches the i-th object mapped is derived
\* from the i-th mappable record consumed, and on success the result is
\* that sequence for the whole buffer: input order, nothing removed or
\* reordered by the skipped unilateral records.
C14_InputOrder ==
    fn \in Walkers
    => LET M == SelectSeq(Consumed, LAMBDA u : Mappable(fn, u)) IN
       /\ Len(things) = Len(M)
       /\ \A i \in 1..Len(M) : KeyOfObject(fn, things[i]) = KeyOfRecord(fn, M[i])
       /\ pc = "ok" => (result = Some(things) /\ Consumed = input)

\* C14 witness: two different fetch records around a skipped record came out
\* in input order.
C14_Witness ==
    /\ fn = "parse_fetches"
    /\ pc = "ok"
    /\ Len(input) = 3
    /\ UnitKind(input[2]) \in {"Recent", "Exists", "Expunge"}
    /\ result # None
    /\ Len(result[1]) = 2
    /\ result[1][1].message = 25
    /\ result[1][2].message = 24

\* the MailboxName of a listing record
NameOf(u) ==
    [attributes |-> u.datum.flags, delimiter |-> u.datum.delimiter, name |-> u.datum.name]

NamesOf(s) ==
    LET M == SelectSeq(s, LAMBDA u : UnitKind(u) \in {"List", "SubList"}) IN
    [i \in 1..Len(M) |-> NameOf(M[i])]

NamesPassable(u) ==
    UnitKind(u) \in {"List", "SubList", "Fetch", "Expunge", "Recent", "Exists"}

\* C15: parse_names maps every List and every SubList record to one
\* MailboxName with the record's flags in the same order, its delimiter and
\* its name; fetch, expunge, recent and exists records are skipped; the first
\* other record (other mailbox data such as flags or status, a capability
\* record, a status line) ends the call with the error built from it.
C15_Names ==
    fn = "parse_names"
    => LET k == FirstNot(input, NamesPassable) IN
       /\ things = NamesOf(Consumed)
       /\ pc = "ok" => (k = 0 /\ result = Some(NamesOf(input)))
       /\ (Returned /\ k = 0) => pc = "ok"
       /\ (Returned /\ k > 0 /\ input[k].kind # "Junk")
            => (pc = "err" /\ result = None
                /\ err = Some(ResponseIntoError(input[k])))

\* C15 witness: a listing with two flags, a skipped fetch record and a
\* subscribed listing were mapped to two names.
C15_Witness ==
    /\ fn = "parse_names"
    /\ pc = "ok"
    /\ Len(input) = 3
    /\ UnitKind(input[1]) = "List"
    /\ UnitKind(input[2]) = "Fetch"
    /\ UnitKind(input[3]) = "SubList"
    /\ result = Some(<<[attributes |-> <<"\\HasNoChildren", "\\Marked">>,
                        delimiter |-> ".", name |-> "INBOX"],
                       [attributes |-> <<>>, delimiter |-> "/", name |-> "Sent"]>>)

\* the last element of a sequence, d when it is empty
LastOr(s, d) == IF s = <<>> THEN d ELSE s[Len(s)]

\* the concatenation of the sequences of a sequence
RECURSIVE Flatten(_)
Flatten(ss) == IF ss = <<>> THEN <<>> ELSE Head(ss) \o Flatten(Tail(ss))

\* the values carried by the mailbox data of kind k in s
DatumNums(s, k) ==
    LET M == SelectSeq(s, LAMBDA u : u.kind = "MailboxData" /\ u.datum.kind = k) IN
    [i \in 1..Len(M) |-> M[i].datum.num]

DatumFlags(s, k) ==
    LET M == SelectSeq(s, LAMBDA u : u.kind = "MailboxData" /\ u.datum.kind = k) IN
    [i \in 1..Len(M) |-> M[i].datum.flags]

\* the values carried by the response codes of kind k in s, each as Some(v)
CodeNums(s, k) ==
    LET M == SelectSeq(s, LAMBDA u : u.kind = "Data" /\ u.code.kind = k) IN
    [i \in 1..Len(M) |-> <<M[i].code.num>>]

CodeFlags(s, k) ==
    LET M == SelectSeq(s, LAMBDA u : u.kind = "Data" /\ u.code.kind = k) IN
    [i \in 1..Len(M) |-> M[i].code.flags]

\* the MailboxStatus the claim describes for the records s
StatusOf(s) ==
    [exists |-> LastOr(DatumNums(s, "Exists"), 0),
     recent |-> LastOr(DatumNums(s, "Recent"), 0),
     unseen |-> LastOr(CodeNums(s, "Unseen"), <<>>),
     uid_validity |-> LastOr(CodeNums(s, "UidValidity"), <<>>),
     uid_next |-> LastOr(CodeNums(s, "UidNext"), <<>>),
     flags |-> Flatten(DatumFlags(s, "Flags")),
     permanent_flags |-> Flatten(CodeFlags(s, "PermanentFlags"))]

\* C16 as stated: for every sequence of OK status lines and mailbox data,
\* parse_mailbox returns the MailboxStatus with the last exists, recent,
\* unseen, uid_validity and uid_next (0 or absent when there is none) and the
\* concatenated flag lists.
C16_Original ==
    (fn = "parse_mailbox" /\ Returned)
    => (pc = "ok" /\ result = Some(StatusOf(input)))

\* C16 amended: the same for every non-empty sequence; at every point of the
\* fold the accumulator is the MailboxStatus of the records consumed so far,
\* so a record that carries none of the fields leaves it unchanged.
C16_Fold ==
    (fn = "parse_mailbox" /\ input # <<>>)
    => /\ pc \in {"run", "ok"}
       /\ mailbox = StatusOf(Consumed)
       /\ pc = "ok" => (Consumed = input /\ result = Some(StatusOf(input)))

\* C16 witness: a later exists count replaced an earlier one and two flag
\* lists were concatenated.
C16_Witness ==
    /\ fn = "parse_mailbox"
    /\ pc = "ok"
    /\ input = <<Flags(<<Seen>>), Exists(4), Flags(<<"\\Answered", Seen>>)>>
    /\ result # None
    /\ result[1].exists = 4
    /\ result[1].flags = <<Seen, "\\Answered", Seen>>
    /\ result[1].unseen = None

AttrsOfKind(at, k) == SelectSeq(at, LAMBDA a : a.kind = k)

\* the payloads (each an Option) of the attributes of kind k
AttrData(at, k) ==
    LET M == AttrsOfKind(at, k) IN [i \in 1..Len(M) |-> M[i].data]

\* the FetchResult the claim describes for a fetch record
FetchOf(u) ==
    LET F == AttrsOfKind(u.attrs, "Flags")
        U == AttrsOfKind(u.attrs, "Uid")
    IN
    [message |-> u.num,
     flags |-> Flatten([i \in 1..Len(F) |-> F[i].flags]),
     uid |-> LastOr([i \in 1..Len(U) |-> <<U[i].num>>], <<>>),
     rfc822_header |-> LastOr(AttrData(u.attrs, "Rfc822Header"), <<>>),
     rfc822 |-> LastOr(AttrData(u.attrs, "Rfc822"), <<>>),
     body |-> LastOr(AttrData(u.attrs, "BodySection"), <<>>)]

\* C17: for a fetch record parse_fetches appends exactly one FetchResult:
\* message is the sequence number, flags the concatenation of the flag
\* attributes, uid, rfc822_header, rfc822 and body the value of the last
\* attribute of the kind (an absent payload overwriting a present one),
\* absent when there is no such attribute, body from any body section; other
\* attributes change nothing.
C17_FetchFold ==
    (fn = "parse_fetches" /\ Len(input) = 1 /\ UnitKind(input[1]) = "Fetch")
    => /\ pc \in {"run", "ok"}
       /\ things = IF lines = <<>> THEN <<FetchOf(input[1])>> ELSE <<>>
       /\ pc = "ok" => result = Some(<<FetchOf(input[1])>>)

\* C17 witness: an absent RFC822 payload overwrote a present one, two flag
\* lists were concatenated.
C17_Witness ==
    /\ fn = "parse_fetches"
    /\ pc = "ok"
    /\ input = <<Fetch(24, <<Attr("Rfc822", 0, <<>>, Some("m1")),
                              Attr("Flags", 0, <<Seen>>, None),
                              Attr("Rfc822", 0, <<>>, None)>>)>>
    /\ result = Some(<<[message |-> 24, flags |-> <<Seen>>, uid |-> None,
                        rfc822_header |-> None, rfc822 |-> None, body |-> None]>>)

FirstJunk == FirstNot(input, LAMBDA u : u.kind # "Junk")

\* C18: the malformed-input error of parse_many, parse_capabilities and
\* parse_mailbox carries exactly the unparsed remainder: the units from the
\* first one the tokenizer did not recognise to the end of the buffer
\* (nothing, when the buffer was empty), and none of the records before it.
C18_Remainder ==
    fn \in Mappers
    => LET k == FirstOffending
           j == FirstJunk
       IN
       /\ (pc = "err" /\ err[1].kind = "Invalid")
            => IF input = <<>> THEN err[1].data = <<>>
               ELSE /\ j > 0
                    /\ Len(Consumed) = j - 1
                    /\ err[1].data = SubSeq(input, j, Len(input))
       /\ (Returned /\ k > 0 /\ input[k].kind = "Junk")
            => /\ pc = "err"
               /\ err = Some([kind |-> "Invalid", data |-> SubSeq(input, k, Len(input))])

\* C18 witness: unrecognised bytes after a consumed capability record, with
\* a unit after them; the error carries the last two units.
C18_Witness ==
    /\ fn = "parse_capabilities"
    /\ Len(input) = 3
    /\ input[2].kind = "Junk"
    /\ pc = "err"
    /\ err = Some([kind |-> "Invalid", data |-> SubSeq(input, 2, 3)])

\* C19: on the empty buffer parse_capabilities and parse_mailbox return the
\* malformed-input error with the empty remainder, never a set or a
\* MailboxStatus, so their success implies that at least one record was
\* folded; parse_names and parse_fetches return the empty sequence.
C19_EmptyBuffer ==
    /\ (fn \in {"parse_capabilities", "parse_mailbox"} /\ input = <<>> /\ Returned)
         => (pc = "err" /\ result = None
             /\ err = Some([kind |-> "Invalid", data |-> <<>>]))
    /\ (fn \in {"parse_capabilities", "parse_mailbox"} /\ pc = "ok")
         => (Len(input) >= 1 /\ Consumed = input)
    /\ (fn \in Walkers /\ input = <<>> /\ Returned)
         => (pc = "ok" /\ result = Some(<<>>))

\* C19 witness: parse_capabilities returned the error on the empty buffer.
C19_Witness ==
    /\ fn = "parse_capabilities"
    /\ input = <<>>
    /\ pc = "err"
    /\ err = Some([kind |-> "Invalid", data |-> <<>>])

\* C20: each of the three loops ends, in success, an error or the fault, on
\* every buffer; every iteration that does not end the call consumes exactly
\* one unit, a skipped unilateral record included, so no more iterations go
\* on than the buffer has units.
C20_Terminates ==
    /\ <>Returned
    /\ [][ (pc = "run" /\ pc' = "run") => Len(lines') = Len(lines) - 1 ]_vars

\* C20 witness: parse_names ended after skipping three unilateral records.
C20_Witness ==
    /\ fn = "parse_names"
    /\ Len(input) = 3
    /\ OnlyKinds(input, UnilateralKinds)
    /\ pc = "ok"
    /\ lines = <<>>
====
